---- MODULE Spec2Model ----
(***************************************************************************)
(* A model of HotelScraper (src/booking_scraper.py): the text normalizers, *)
(* the per-card extractor, the consent handler, the pagination step and    *)
(* the page traversal loop of scrape_hotel_data.                           *)
(*                                                                         *)
(* Text is a sequence of one-character strings.  A float is the decimal    *)
(* it denotes, [m |-> mantissa, e |-> number of decimals], with no         *)
(* trailing zero decimal, so that equal numbers are equal records.         *)
(***************************************************************************)
EXTENDS Integers, Sequences, FiniteSets, TLC

\* ------------------------------------------------------------------ bounds

\* Largest number of pages a scraper object may load over its life: every
\* call loads the first page and may load max_pages - 1 more.
MaxPages == 2
\* Largest number of cards the site renders on one page.
MaxCards == 3
\* Longest text handed to the cleaners on their own.
MaxLen == 4

\* ------------------------------------------------------------------ text

Digits == {"0", "1", "2", "3", "4", "5", "6", "7", "8", "9"}

DigitVal(c) ==
  CASE c = "0" -> 0 [] c = "1" -> 1 [] c = "2" -> 2 [] c = "3" -> 3
    [] c = "4" -> 4 [] c = "5" -> 5 [] c = "6" -> 6 [] c = "7" -> 7
    [] c = "8" -> 8 [] c = "9" -> 9

DigitChar(n) ==
  CASE n = 0 -> "0" [] n = 1 -> "1" [] n = 2 -> "2" [] n = 3 -> "3"
    [] n = 4 -> "4" [] n = 5 -> "5" [] n = 6 -> "6" [] n = 7 -> "7"
    [] n = 8 -> "8" [] n = 9 -> "9"

IsDigit(c) == c \in Digits

IsSpace(c) == c = " "

\* str.strip(): the text without its leading and trailing whitespace.
RECURSIVE LStrip(_)
LStrip(s) ==
  IF s = <<>> THEN <<>>
  ELSE IF IsSpace(Head(s)) THEN LStrip(Tail(s)) ELSE s

RECURSIVE RStrip(_)
RStrip(s) ==
  IF s = <<>> THEN <<>>
  ELSE IF IsSpace(s[Len(s)]) THEN RStrip(SubSeq(s, 1, Len(s) - 1)) ELSE s

Strip(s) == RStrip(LStrip(s))

\* str.split(): the maximal runs of non-whitespace characters, in order.
RECURSIVE SplitFrom(_, _, _)
SplitFrom(s, cur, acc) ==
  IF s = <<>> THEN (IF cur = <<>> THEN acc ELSE Append(acc, cur))
  ELSE IF IsSpace(Head(s))
       THEN SplitFrom(Tail(s), <<>>, IF cur = <<>> THEN acc ELSE Append(acc, cur))
       ELSE SplitFrom(Tail(s), Append(cur, Head(s)), acc)

Split(s) == SplitFrom(s, <<>>, <<>>)

\* The longest prefix of s made of digits.
RECURSIVE DigitRun(_)
DigitRun(s) ==
  IF s = <<>> \/ ~IsDigit(Head(s)) THEN <<>>
  ELSE <<Head(s)>> \o DigitRun(Tail(s))

\* ---------------------------------------------------------------- floats

Zero == [m |-> 0, e |-> 0]

RECURSIVE Normal(_, _)
Normal(m, e) ==
  IF e > 0 /\ m % 10 = 0 THEN Normal(m \div 10, e - 1) ELSE [m |-> m, e |-> e]

RECURSIVE DigitsValue(_, _)
DigitsValue(s, acc) ==
  IF s = <<>> THEN acc ELSE DigitsValue(Tail(s), acc * 10 + DigitVal(Head(s)))

Dots(s) == Cardinality({i \in 1..Len(s) : s[i] = "."})

\* float(token) for a token of digits and points: a ValueError unless the
\* token has a digit and at most one point.
FloatOk(tok) ==
  /\ \A i \in 1..Len(tok) : IsDigit(tok[i]) \/ tok[i] = "."
  /\ \E i \in 1..Len(tok) : IsDigit(tok[i])
  /\ Dots(tok) <= 1

Float(tok) ==
  LET ds == SelectSeq(tok, IsDigit)
      decimals == IF Dots(tok) = 0 THEN 0
                  ELSE Len(tok) - (CHOOSE i \in 1..Len(tok) : tok[i] = ".")
  IN Normal(DigitsValue(ds, 0), decimals)

\* ------------------------------------------------------------ normalizer

IsDigitOrDot(c) == IsDigit(c) \/ c = "."

\* What a call shows for an exception that leaves it.
Raised(exception) == [raised |-> exception]

\* _clean_price without the handler of line 281: the ValueError of float()
\* leaves the function.
CleanPriceNoExcept(price_text) ==
  IF price_text = <<>> THEN Zero
  ELSE LET cleaned == SelectSeq(price_text, IsDigitOrDot)
           numbers == Split(cleaned)
       IN IF numbers # <<>>
          THEN (IF FloatOk(numbers[1]) THEN Float(numbers[1])
                ELSE Raised("ValueError"))
          ELSE Zero

\* _clean_price as the comment of line 275 has it: the first number found
\* in the text.
CleanPriceFirstNumber(price_text) ==
  IF price_text = <<>> THEN Zero
  ELSE LET numbers == Split(SelectSeq(price_text,
                              LAMBDA c : IsDigitOrDot(c) \/ IsSpace(c)))
       IN IF numbers # <<>>
          THEN (IF FloatOk(numbers[1]) THEN Float(numbers[1]) ELSE Zero)
          ELSE Zero

\* _clean_price: keep the digits and points, split, float() of the first
\* token; 0.0 on empty text, on no token and on ValueError.
CleanPrice(price_text) ==
  IF price_text = <<>> THEN Zero
  ELSE LET cleaned == SelectSeq(price_text, IsDigitOrDot)
           numbers == Split(cleaned)
       IN IF numbers # <<>>
          THEN (IF FloatOk(numbers[1]) THEN Float(numbers[1]) ELSE Zero)
          ELSE Zero

\* The first match of (\d+\.\d+|\d+) in s, or <<>> when there is none: at
\* the first digit, the digit run, extended by a point and the digit run
\* after it when there is one.
RECURSIVE FirstNumber(_)
FirstNumber(s) ==
  IF s = <<>> THEN <<>>
  ELSE IF ~IsDigit(Head(s)) THEN FirstNumber(Tail(s))
  ELSE LET int == DigitRun(s)
           rest == SubSeq(s, Len(int) + 1, Len(s))
           frac == IF rest # <<>> /\ Head(rest) = "." THEN DigitRun(Tail(rest))
                   ELSE <<>>
       IN IF frac # <<>> THEN int \o <<".">> \o frac ELSE int

\* _clean_rating: float() of the first numeral of the text; 0.0 on empty
\* text, on no numeral and on ValueError.
CleanRating(rating_text) ==
  IF rating_text = <<>> THEN Zero
  ELSE LET number == FirstNumber(rating_text)
       IN IF number # <<>>
          THEN (IF FloatOk(number) THEN Float(number) ELSE Zero)
          ELSE Zero

\* ------------------------------------------------------------------ cards

\* What find_element on a card does for one selector: it finds an element
\* with a text, raises NoSuchElementException ("absent"), or raises another
\* WebDriver exception such as a stale element reference ("fault").
Found(t) == [kind |-> "found", text |-> t]
Absent == [kind |-> "absent", text |-> <<>>]
Fault == [kind |-> "fault", text |-> <<>>]

\* The keys of hotel_data in the order _extract_single_hotel fills them,
\* and the one selector each is resolved with.
Fields == <<"hotel_name", "price", "rating", "location", "review_count", "distance">>

SelectorOf(f) ==
  CASE f = "hotel_name" -> <<"[data-testid='title']">>
    [] f = "price" -> <<"[data-testid='price-and-discounted-price']">>
    [] f = "rating" -> <<"[data-testid='review-score']">>
    [] f = "location" -> <<"[data-testid='location']">>
    [] f = "review_count" -> <<"[data-testid='review-score'] div:last-child">>
    [] f = "distance" -> <<"[data-testid='distance']">>

\* _safe_extract_text without its except clause.
SafeExtractTextNoCatch(c, f) ==
  [raised |-> c[f].kind # "found",
   value |-> IF c[f].kind = "found" THEN Strip(c[f].text) ELSE <<>>]

\* _safe_extract_text with "except Exception".
SafeExtractTextCatchAll(c, f) ==
  [raised |-> FALSE,
   value |-> IF c[f].kind = "found" THEN Strip(c[f].text) ELSE <<>>]

\* _safe_extract_text without the strip().
SafeExtractTextNoStrip(c, f) ==
  [raised |-> c[f].kind = "fault",
   value |-> IF c[f].kind = "found" THEN c[f].text ELSE <<>>]

\* _safe_extract_text on the field's selector: the stripped text of the
\* element, "" on NoSuchElementException; any other exception is not caught.
SafeExtractText(c, f) ==
  [raised |-> c[f].kind = "fault",
   value |-> IF c[f].kind = "found" THEN Strip(c[f].text) ELSE <<>>]

\* The fields _extract_single_hotel resolves before it returns: all of them,
\* or those up to the first whose lookup raises.
RECURSIVE Resolved(_, _)
Resolved(c, k) ==
  IF k > Len(Fields) THEN <<>>
  ELSE LET r == SafeExtractText(c, Fields[k])
       IN IF r.raised THEN <<[field |-> Fields[k], selector |-> SelectorOf(Fields[k])[1],
                              raised |-> TRUE, value |-> <<>>]>>
          ELSE <<[field |-> Fields[k], selector |-> SelectorOf(Fields[k])[1],
                  raised |-> FALSE, value |-> r.value]>> \o Resolved(c, k + 1)

NoHotel ==
  [hotel_name |-> <<>>, price |-> Zero, rating |-> Zero, location |-> <<>>,
   review_count |-> <<>>, distance |-> <<>>]

\* _extract_single_hotel: the dict of the six fields, price and rating
\* cleaned; None when a lookup raised (the except of line 245).  calls are
\* the lookups made.  The function itself never raises.
ExtractSingleHotel(c) ==
  LET calls == Resolved(c, 1)
      failed == \E k \in 1..Len(calls) : calls[k].raised
      val(k) == calls[k].value
  IN [raised |-> FALSE,
      none |-> failed,
      hotel_data |-> IF failed THEN NoHotel
                     ELSE [hotel_name |-> val(1), price |-> CleanPrice(val(2)),
                           rating |-> CleanRating(val(3)), location |-> val(4),
                           review_count |-> val(5), distance |-> val(6)],
      calls |-> calls]

\* Line 184: the test that lets a card into self.data.
AppendsAnyDict(r) == ~r.raised /\ ~r.none

Appends(r) == ~r.raised /\ ~r.none /\ r.hotel_data.hotel_name # <<>>

\* ------------------------------------------------------------- the site

\* The cards the site serves.  A card is named after the page and the
\* position it is rendered at, so a record tells where it was extracted.
NameText(p, j) == <<"H", DigitChar(p), DigitChar(j)>>
PriceText == <<"$", "1", "2", "3", ".", "4", "5">>
RatingText == <<"8", ".", "3", " ", "G", "o", "o", "d">>
LocationText == <<"C", "o", "r", "k">>
ReviewText == <<"1", "2", " ", "r", "e", "v", "i", "e", "w", "s">>
DistanceText == <<"2", " ", "k", "m">>

FullCard(p, j) ==
  [hotel_name |-> Found(NameText(p, j)), price |-> Found(PriceText),
   rating |-> Found(RatingText), location |-> Found(LocationText),
   review_count |-> Found(ReviewText), distance |-> Found(DistanceText)]

\* valid: every field present; no_rating: no review score element;
\* no_name: no title element; stale: the price lookup raises.
OddKinds == {"no_rating", "no_name", "stale"}

SiteCard(kind, p, j) ==
  CASE kind = "valid" -> FullCard(p, j)
    [] kind = "no_rating" ->
         [FullCard(p, j) EXCEPT !.rating = Absent, !.review_count = Absent]
    [] kind = "no_name" -> [FullCard(p, j) EXCEPT !.hotel_name = Absent]
    [] kind = "stale" -> [FullCard(p, j) EXCEPT !.price = Fault]

\* The pages the site serves: up to MaxCards cards, at most one of them odd.
Layouts ==
  UNION {{[j \in 1..n |-> "valid"]} \cup
         {[j \in 1..n |-> IF j = q THEN k ELSE "valid"] : q \in 1..n, k \in OddKinds}
         : n \in 0..MaxCards}

\* ------------------------------------------------------------- selectors

cookie_selectors ==
  <<"button#onetrust-accept-btn-handler", "button[id='onetrust-accept-btn-handler']",
    "button[aria-label*='cookie']", "button[class*='cookie']",
    "button[data-testid*='cookie']">>

next_selectors ==
  <<"button[aria-label*='Next']", "a[aria-label*='Next']",
    "button[data-testid*='next']", "a[data-testid*='next']",
    "div[data-testid='pagination'] a:last-child">>

\* ----------------------------------------------------------------- state

VARIABLES
  pc,            \* where scrape_hotel_data is: idle, get, cookies, consent,
                 \* loop, find, next, done
  max_pages,     \* the argument of the current call
  page,          \* the loop variable of line 139
  selector,      \* index of the candidate selector being waited on, 1 when
                 \* no candidate loop is running
  hotels_before, \* len(self.data) at the start of _scrape_current_page
  page_hotels,   \* what _scrape_current_page returned last
  data,          \* self.data
  returned,      \* the rows of the DataFrame the last call returned
  stop,          \* why the call ended: none, budget, timeout, no_next, fault
  csv,           \* the rows main wrote to data/hotels.csv
  exported,      \* main has handled the returned DataFrame
  runs,          \* calls of scrape_hotel_data made on this scraper
  budget,        \* pages this scraper may still load
  start,         \* len(self.data) when the current call began
  seen,          \* the outcomes of find_elements during the current call:
                 \* the page number, whether it returned, and the cards it
                 \* returned, each a handle the site answers lookups for by
                 \* its kind
  fetches,       \* waits for a result card begun during the current call
  clicks,        \* next-page controls clicked during the current call
  invoked,       \* page numbers on which _go_to_next_page was called
  cookie_tried,  \* consent candidates accept_cookies has waited on
  cookie_clicks, \* clicks accept_cookies has issued
  cookies_ret,   \* what accept_cookies returned: none, true, false
  card,          \* a card handed to _extract_single_hotel on its own
  out,           \* <<>>, or what _extract_single_hotel returned for card
  text,          \* a text handed to _clean_price and _clean_rating on its own
  norm           \* <<>>, or what the two cleaners returned for text

vars ==
  <<pc, max_pages, page, selector, hotels_before, page_hotels,
    data, returned, stop, csv, exported, runs, budget, start, seen, fetches,
    clicks, invoked, cookie_tried, cookie_clicks, cookies_ret, card, out,
    text, norm>>

unitVars == <<card, out, text, norm>>

Idle ==
  /\ pc = "idle"
  /\ max_pages = 0
  /\ page = 0
  /\ selector = 1
  /\ hotels_before = 0
  /\ page_hotels = 0
  /\ data = <<>>
  /\ returned = <<>>
  /\ stop = "none"
  /\ csv = <<>>
  /\ exported = FALSE
  /\ runs = 0
  /\ budget = MaxPages
  /\ start = 0
  /\ seen = <<>>
  /\ fetches = 0
  /\ clicks = 0
  /\ invoked = {}
  /\ cookie_tried = 0
  /\ cookie_clicks = 0
  /\ cookies_ret = "none"

Init ==
  /\ Idle
  /\ card = FullCard(1, 1)
  /\ out = <<>>
  /\ text = <<>>
  /\ norm = <<>>

\* ------------------------------------------------------------- DataFrame

\* pd.to_numeric(...).fillna(0) of a column of floats leaves it as it is.
ToNumeric(x) == x

Row(h) ==
  [hotel_name |-> h.hotel_name, price |-> ToNumeric(h.price),
   rating |-> ToNumeric(h.rating), location |-> h.location,
   review_count |-> h.review_count, distance |-> h.distance,
   scraped_at |-> "now"]

\* _create_dataframe: one row per record of self.data, in its order, with
\* the scraped_at column; the empty frame for no data.
CreateDataframe(d) ==
  IF d = <<>> THEN <<>> ELSE [k \in 1..Len(d) |-> Row(d[k])]

\* pd.DataFrame(): the frame with no row and no column.
EmptyFrame == <<>>

\* ---------------------------------------------------- scrape_hotel_data

pageVars == <<hotels_before, page_hotels>>
cookieVars == <<cookie_tried, cookie_clicks, cookies_ret>>
lifeVars == <<runs, budget, start, csv, exported>>

\* Line 166: the call returns the frame of everything in self.data.
Finish(why) ==
  /\ pc' = "done"
  /\ stop' = why
  /\ returned' = CreateDataframe(data)

\* Lines 168-170: an exception that reaches the outer handler; the call
\* returns an empty frame.
Fail ==
  /\ pc' = "done"
  /\ stop' = "fault"
  /\ returned' = EmptyFrame

\* Line 139 with a loop that runs once more than range(max_pages).
InRangeInclusive(pg, mp) == pg <= mp

\* Line 139: range(max_pages) still has a page.
InRange(pg, mp) == pg < mp

\* Line 157 with the test "page < max_pages".
NotLastPageInclusive(pg, mp) == pg < mp

\* Line 157: the page is not the last one the budget allows.
NotLastPage(pg, mp) == pg < mp - 1

\* The pages a call with budget mp may load: driver.get loads one whatever
\* the budget is.
Cost(mp) == IF mp > 1 THEN mp ELSE 1

\* A call of scrape_hotel_data(url, mp) on the scraper (lines 131-132).
Call(mp) ==
  /\ pc \in {"idle", "done"}
  /\ Cost(mp) <= budget
  /\ pc' = "get"
  /\ max_pages' = mp
  /\ page' = 0
  /\ selector' = 1
  /\ stop' = "none"
  /\ returned' = EmptyFrame
  /\ exported' = FALSE
  /\ runs' = runs + 1
  /\ budget' = budget - Cost(mp)
  /\ start' = Len(data)
  /\ seen' = <<>>
  /\ fetches' = 0
  /\ clicks' = 0
  /\ invoked' = {}
  /\ cookie_tried' = 0
  /\ cookie_clicks' = 0
  /\ cookies_ret' = "none"
  /\ UNCHANGED <<unitVars, pageVars, data, csv>>

\* Line 133: driver.get(url) loads the page.
DriverGet ==
  /\ pc = "get"
  /\ pc' = "cookies"
  /\ selector' = 1
  /\ UNCHANGED <<unitVars, max_pages, page, pageVars, data, returned, stop, lifeVars,
                 seen, fetches, clicks, invoked, cookieVars>>

\* Line 133: driver.get(url) raises.
DriverGetFault ==
  /\ pc = "get"
  /\ Fail
  /\ UNCHANGED <<unitVars, max_pages, page, selector, pageVars, data, lifeVars,
                 seen, fetches, clicks, invoked, cookieVars>>

\* ------------------------------------------------------- accept_cookies

\* Lines 103-109 without the return: the candidate is clicked and the loop
\* goes on to the next candidate.
CookieClickContinues ==
  /\ pc = "cookies"
  /\ cookie_tried' = cookie_tried + 1
  /\ cookie_clicks' = cookie_clicks + 1
  /\ IF selector < Len(cookie_selectors)
     THEN /\ selector' = selector + 1
          /\ UNCHANGED <<pc, cookies_ret>>
     ELSE /\ cookies_ret' = "false"
          /\ pc' = "consent"
          /\ UNCHANGED selector
  /\ UNCHANGED <<unitVars, max_pages, page, pageVars, data, returned, stop, lifeVars,
                 seen, fetches, clicks, invoked>>

\* Lines 103-109: the candidate is clickable and the click succeeds.
CookieClick ==
  /\ pc = "cookies"
  /\ cookie_tried' = cookie_tried + 1
  /\ cookie_clicks' = cookie_clicks + 1
  /\ cookies_ret' = "true"
  /\ pc' = "consent"
  /\ UNCHANGED <<unitVars, max_pages, page, selector, pageVars, data, returned, stop,
                 lifeVars, seen, fetches, clicks, invoked>>

\* Lines 110-114: the wait on the candidate times out; the next candidate
\* is tried, and after the last the handler returns False.
CookieTimeout ==
  /\ pc = "cookies"
  /\ cookie_tried' = cookie_tried + 1
  /\ IF selector < Len(cookie_selectors)
     THEN /\ selector' = selector + 1
          /\ UNCHANGED <<pc, cookies_ret>>
     ELSE /\ cookies_ret' = "false"
          /\ pc' = "consent"
          /\ UNCHANGED selector
  /\ UNCHANGED <<unitVars, max_pages, page, pageVars, data, returned, stop, lifeVars,
                 seen, fetches, clicks, invoked, cookie_clicks>>

\* Lines 116-118 without the handler: the exception leaves accept_cookies
\* and reaches the outer handler of line 168.
CookieFaultEscapes ==
  /\ pc = "cookies"
  /\ cookie_tried' = cookie_tried + 1
  /\ Fail
  /\ UNCHANGED <<unitVars, max_pages, page, selector, pageVars, data, lifeVars,
                 seen, fetches, clicks, invoked, cookie_clicks, cookies_ret>>

\* Lines 116-118: the wait or the click raises something else than a
\* timeout; the handler returns False.
CookieFault ==
  /\ pc = "cookies"
  /\ cookie_tried' = cookie_tried + 1
  /\ cookies_ret' = "false"
  /\ pc' = "consent"
  /\ UNCHANGED <<unitVars, max_pages, page, selector, pageVars, data, returned, stop,
                 lifeVars, seen, fetches, clicks, invoked, cookie_clicks>>

\* ------------------------------------------------------- the page loop

\* Lines 137-139: accept_cookies has returned; its result is not used and
\* the loop over the pages begins.
EnterLoop ==
  /\ pc = "consent"
  /\ pc' = "loop"
  /\ cookie_tried' = 0
  /\ cookie_clicks' = 0
  /\ cookies_ret' = "none"
  /\ selector' = 1
  /\ UNCHANGED <<unitVars, max_pages, page, pageVars, data, returned, stop, lifeVars,
                 seen, fetches, clicks, invoked>>

\* Lines 139-147: the loop has a page left and a result card shows up.
WaitCards ==
  /\ pc = "loop"
  /\ InRange(page, max_pages)
  /\ fetches' = fetches + 1
  /\ pc' = "find"
  /\ UNCHANGED <<unitVars, max_pages, page, selector, pageVars, data, returned, stop,
                 lifeVars, seen, clicks, invoked, cookieVars>>

\* Lines 148-150 without the inner handler: the timeout reaches the outer
\* handler of line 168 and the call returns an empty frame.
WaitCardsTimeoutEscapes ==
  /\ pc = "loop"
  /\ InRange(page, max_pages)
  /\ fetches' = fetches + 1
  /\ pc' = "done"
  /\ stop' = "timeout"
  /\ returned' = EmptyFrame
  /\ UNCHANGED <<unitVars, max_pages, page, selector, pageVars, data, lifeVars, seen,
                 clicks, invoked, cookieVars>>

\* Lines 148-150: no result card within the wait: break.
WaitCardsTimeout ==
  /\ pc = "loop"
  /\ InRange(page, max_pages)
  /\ fetches' = fetches + 1
  /\ Finish("timeout")
  /\ UNCHANGED <<unitVars, max_pages, page, selector, pageVars, data, lifeVars, seen,
                 clicks, invoked, cookieVars>>

\* Lines 144-146 and 168-170: the wait raises something else than a timeout.
WaitCardsFault ==
  /\ pc = "loop"
  /\ InRange(page, max_pages)
  /\ fetches' = fetches + 1
  /\ Fail
  /\ UNCHANGED <<unitVars, max_pages, page, selector, pageVars, data, lifeVars, seen,
                 clicks, invoked, cookieVars>>

\* Lines 139 and 165-166: range(max_pages) is used up.
LoopEnd ==
  /\ pc = "loop"
  /\ ~InRange(page, max_pages)
  /\ Finish("budget")
  /\ UNCHANGED <<unitVars, max_pages, page, selector, pageVars, data, lifeVars, seen,
                 fetches, clicks, invoked, cookieVars>>

\* Lines 156-163, after _scrape_current_page returned: call
\* _go_to_next_page unless this is the last page of the budget, where the
\* loop goes on to its end.
Paginate ==
  IF NotLastPage(page, max_pages)
  THEN /\ pc' = "next"
       /\ selector' = 1
       /\ invoked' = invoked \cup {page + 1}
       /\ UNCHANGED page
  ELSE /\ pc' = "loop"
       /\ page' = page + 1
       /\ UNCHANGED <<selector, invoked>>

\* -------------------------------------------------- _scrape_current_page

\* Lines 181-189 with a break in place of the continue: a card that yields
\* nothing ends the loop over the cards.
RECURSIVE ScrapeCardsBreak(_, _, _, _)
ScrapeCardsBreak(d, cards, p, j) ==
  IF j > Len(cards) THEN d
  ELSE LET r == ExtractSingleHotel(SiteCard(cards[j], p, j))
       IN IF r.none THEN d
          ELSE ScrapeCardsBreak(IF Appends(r) THEN Append(d, r.hotel_data) ELSE d,
                                cards, p, j + 1)

\* Lines 181-189 with the record put first in self.data.
RECURSIVE ScrapeCardsInsert(_, _, _, _)
ScrapeCardsInsert(d, cards, p, j) ==
  IF j > Len(cards) THEN d
  ELSE LET r == ExtractSingleHotel(SiteCard(cards[j], p, j))
       IN ScrapeCardsInsert(IF Appends(r) THEN <<r.hotel_data>> \o d ELSE d,
                            cards, p, j + 1)

\* Lines 181-189 with the test of line 184 reduced to "hotel_data".
RECURSIVE ScrapeCardsAnyDict(_, _, _, _)
ScrapeCardsAnyDict(d, cards, p, j) ==
  IF j > Len(cards) THEN d
  ELSE LET r == ExtractSingleHotel(SiteCard(cards[j], p, j))
       IN ScrapeCardsAnyDict(IF AppendsAnyDict(r) THEN Append(d, r.hotel_data) ELSE d,
                             cards, p, j + 1)

\* Lines 181-189: the loop over the cards of page p from card j on, as it
\* leaves self.data.  A card's dict is appended when it is not None and has
\* a name; an exception out of the extraction is logged and the loop
\* continues with the next card.
RECURSIVE ScrapeCards(_, _, _, _)
ScrapeCards(d, cards, p, j) ==
  IF j > Len(cards) THEN d
  ELSE LET r == ExtractSingleHotel(SiteCard(cards[j], p, j))
       IN ScrapeCards(IF Appends(r) THEN Append(d, r.hotel_data) ELSE d,
                      cards, p, j + 1)

\* Lines 174-192 and 156-163: find_elements returns the cards of the page,
\* each is extracted, and the page call returns the number of records it
\* added.
ScrapeCurrentPage(cards) ==
  /\ pc = "find"
  /\ hotels_before' = Len(data)
  /\ data' = ScrapeCards(data, cards, page + 1, 1)
  /\ page_hotels' = Len(data') - hotels_before'
  /\ seen' = Append(seen, [page |-> page + 1, listed |-> TRUE, cards |-> cards])
  /\ Paginate
  /\ UNCHANGED <<unitVars, max_pages, returned, stop, lifeVars, fetches, clicks, cookieVars>>

\* Lines 178 and 194-196 without the handler: the exception of
\* find_elements leaves the page call and reaches the outer handler of
\* line 168.
ScrapeCurrentPageFaultEscapes ==
  /\ pc = "find"
  /\ hotels_before' = Len(data)
  /\ seen' = Append(seen, [page |-> page + 1, listed |-> FALSE, cards |-> <<>>])
  /\ Fail
  /\ UNCHANGED <<unitVars, max_pages, page, selector, page_hotels, data, lifeVars,
                 fetches, clicks, invoked, cookieVars>>

\* Lines 178, 194-196 and 156-163: find_elements raises; the page call
\* returns 0.
ScrapeCurrentPageFault ==
  /\ pc = "find"
  /\ hotels_before' = Len(data)
  /\ page_hotels' = 0
  /\ seen' = Append(seen, [page |-> page + 1, listed |-> FALSE, cards |-> <<>>])
  /\ Paginate
  /\ UNCHANGED <<unitVars, max_pages, data, returned, stop, lifeVars, fetches,
                 clicks, cookieVars>>

\* ------------------------------------------------------ _go_to_next_page

\* Lines 319-325 and 163: the candidate is clickable and is clicked; the
\* loop goes to its next page.
NextClick ==
  /\ pc = "next"
  /\ clicks' = clicks + 1
  /\ page' = page + 1
  /\ pc' = "loop"
  /\ selector' = 1
  /\ UNCHANGED <<unitVars, max_pages, pageVars, data, returned, stop, lifeVars, seen,
                 fetches, invoked, cookieVars>>

\* Lines 317-330 as a retry loop: after the last candidate timed out the
\* step starts over with the first.
NextTimeoutRetries ==
  /\ pc = "next"
  /\ selector' = IF selector < Len(next_selectors) THEN selector + 1 ELSE 1
  /\ UNCHANGED <<unitVars, pc, stop, returned, max_pages, page, pageVars, data,
                 lifeVars, seen, fetches, clicks, invoked, cookieVars>>

\* Lines 157-160 without the break: after the last candidate timed out the
\* loop goes on to wait for the cards of the next page.
NextTimeoutContinues ==
  /\ pc = "next"
  /\ IF selector < Len(next_selectors)
     THEN /\ selector' = selector + 1
          /\ UNCHANGED <<pc, page, stop, returned>>
     ELSE /\ pc' = "loop"
          /\ page' = page + 1
          /\ selector' = 1
          /\ UNCHANGED <<stop, returned>>
  /\ UNCHANGED <<unitVars, max_pages, pageVars, data, lifeVars, seen, fetches,
                 clicks, invoked, cookieVars>>

\* Lines 326-330 and 158-160: the wait on the candidate times out; the next
\* candidate is tried, and after the last the step returns False: break.
NextTimeout ==
  /\ pc = "next"
  /\ IF selector < Len(next_selectors)
     THEN /\ selector' = selector + 1
          /\ UNCHANGED <<pc, stop, returned>>
     ELSE /\ Finish("no_next")
          /\ selector' = 1
  /\ UNCHANGED <<unitVars, max_pages, page, pageVars, data, lifeVars, seen, fetches,
                 clicks, invoked, cookieVars>>

\* Lines 332-334 without the handler: the exception leaves _go_to_next_page
\* and reaches the outer handler of line 168.
NextFaultEscapes ==
  /\ pc = "next"
  /\ Fail
  /\ selector' = 1
  /\ UNCHANGED <<unitVars, max_pages, page, pageVars, data, lifeVars, seen, fetches,
                 clicks, invoked, cookieVars>>

\* Lines 332-334 and 158-160: the wait or the click raises something else
\* than a timeout; the step returns False: break.
NextFault ==
  /\ pc = "next"
  /\ Finish("next_fault")
  /\ selector' = 1
  /\ UNCHANGED <<unitVars, max_pages, page, pageVars, data, lifeVars, seen, fetches,
                 clicks, invoked, cookieVars>>

\* ------------------------------------------------------------------ main

\* save_to_csv (lines 356-363): the frame of self.data, when there is data.
SaveToCsv(d, file) == IF d # <<>> THEN CreateDataframe(d) ELSE file

\* Lines 400-401 and 413-414: main saves when the returned frame is not
\* empty.
MainExport ==
  /\ pc = "done"
  /\ ~exported
  /\ exported' = TRUE
  /\ csv' = IF returned # EmptyFrame THEN SaveToCsv(data, csv) ELSE csv
  /\ UNCHANGED <<unitVars, pc, max_pages, page, selector, pageVars, data, returned,
                 stop, runs, budget, start, seen, fetches, clicks, invoked,
                 cookieVars>>

Next ==
  \/ \E mp \in 0..MaxPages : Call(mp)
  \/ DriverGet
  \/ DriverGetFault
  \/ CookieClick
  \/ CookieTimeout
  \/ CookieFault
  \/ EnterLoop
  \/ WaitCards
  \/ WaitCardsTimeout
  \/ WaitCardsFault
  \/ LoopEnd
  \/ \E cards \in Layouts : ScrapeCurrentPage(cards)
  \/ ScrapeCurrentPageFault
  \/ NextClick
  \/ NextTimeout
  \/ NextFault
  \/ MainExport

Spec == Init /\ [][Next]_vars

\* The steps of one call of scrape_hotel_data, lines 133-170.
RunStep ==
  \/ DriverGet
  \/ DriverGetFault
  \/ CookieClick
  \/ CookieTimeout
  \/ CookieFault
  \/ EnterLoop
  \/ WaitCards
  \/ WaitCardsTimeout
  \/ WaitCardsFault
  \/ LoopEnd
  \/ \E cards \in Layouts : ScrapeCurrentPage(cards)
  \/ ScrapeCurrentPageFault
  \/ NextClick
  \/ NextTimeout
  \/ NextFault

\* The call is one thread of straight-line code: driver.get returns or
\* raises, every wait returns or times out after its 15 seconds (line 58),
\* a page lists finitely many cards; so a call that has a step left takes
\* one.  When main calls, and whether it calls again, is left open.
SpecLive == Init /\ [][Next]_vars /\ WF_vars(RunStep)

\* ------------------------------------------- _extract_single_hotel alone

NameTexts == {<<"I", "n", "n">>, <<" ", "I", "n", "n", " ">>, <<" ">>, <<>>}
PriceTexts ==
  {PriceText, <<"1", "2", "0", " ", "-", " ", "1", "5", "0">>, <<"a", "b", "c">>,
   <<"1", ".", "2", ".", "3">>}
RatingTexts == {RatingText, <<"W", "o", "w">>, <<"9">>}

Outcomes(texts) == {Found(t) : t \in texts} \cup {Absent, Fault}

\* The cards handed to the extractor: every field found with one of its
\* texts, absent or faulty.  The review count sits inside the review score
\* element, so it is not found where that element is absent.
Cards ==
  {c \in [hotel_name : Outcomes(NameTexts), price : Outcomes(PriceTexts),
          rating : Outcomes(RatingTexts), location : Outcomes({LocationText}),
          review_count : Outcomes({ReviewText}), distance : Outcomes({DistanceText})] :
     c.rating.kind = "absent" => c.review_count.kind # "found"}

InitCard ==
  /\ Idle
  /\ card \in Cards
  /\ out = <<>>
  /\ text = <<>>
  /\ norm = <<>>

\* Lines 183-185: _extract_single_hotel(card), and whether line 184 lets
\* its dict into self.data.
ExtractCard ==
  /\ out = <<>>
  /\ out' = <<[r |-> ExtractSingleHotel(card),
               appended |-> Appends(ExtractSingleHotel(card))]>>
  /\ UNCHANGED <<card, text, norm, pc, max_pages, page, selector, pageVars, data, returned,
                 stop, lifeVars, seen, fetches, clicks, invoked, cookieVars>>

NextCard == ExtractCard

SpecCard == InitCard /\ [][NextCard]_vars

\* ------------------------------------- _clean_price and _clean_rating alone

\* A digit or two, the point, the blank, and two characters that are dropped.
Chars == {"1", "2", ".", " ", "-", "$"}

Texts == UNION {[1..n -> Chars] : n \in 0..MaxLen}

InitText ==
  /\ Idle
  /\ card = FullCard(1, 1)
  /\ out = <<>>
  /\ text \in Texts
  /\ norm = <<>>

\* Lines 220 and 226: the two cleaners applied to a text.
CleanText ==
  /\ norm = <<>>
  /\ norm' = <<[price |-> CleanPrice(text), rating |-> CleanRating(text)]>>
  /\ UNCHANGED <<card, out, text, pc, max_pages, page, selector, pageVars, data,
                 returned, stop, lifeVars, seen, fetches, clicks, invoked,
                 cookieVars>>

NextText == CleanText

SpecText == InitText /\ [][NextText]_vars

\* ================================================================ claims

Named(kind) == kind \in {"valid", "no_rating"}

NamedCount(cards) == Cardinality({j \in 1..Len(cards) : Named(cards[j])})

RECURSIVE TotalNamed(_)
TotalNamed(pages) ==
  IF pages = <<>> THEN 0 ELSE NamedCount(Head(pages).cards) + TotalNamed(Tail(pages))

\* The page and position a record's name was rendered at, as one number.
PosOf(name) == 10 * DigitVal(name[2]) + DigitVal(name[3])

SameRecords(rows, d) ==
  /\ Len(rows) = Len(d)
  /\ \A k \in 1..Len(d) :
       /\ rows[k].hotel_name = d[k].hotel_name
       /\ rows[k].price = d[k].price
       /\ rows[k].rating = d[k].rating
       /\ rows[k].location = d[k].location
       /\ rows[k].review_count = d[k].review_count
       /\ rows[k].distance = d[k].distance

TwoValid == <<"valid", "valid">>

\* C1 (as claimed): when the call ends on a fault that reached the outer
\* handler, the frame it returns holds every record of self.data.
C1_PartialResultsReturned ==
  (pc = "done" /\ stop = "fault") =>
    \A k \in 1..Len(data) :
      \E m \in 1..Len(returned) : returned[m].hotel_name = data[k].hotel_name

\* C2: a call waits for result cards at most max_pages times and clicks a
\* next-page control at most max_pages - 1 times, whatever the site serves.
C2_FetchBound ==
  /\ fetches <= max_pages
  /\ IF max_pages > 0 THEN clicks <= max_pages - 1 ELSE clicks = 0

C2_Witness ==
  /\ pc = "done"
  /\ stop = "budget"
  /\ max_pages = 2
  /\ fetches = 2
  /\ clicks = 1

\* C3: _go_to_next_page is never called on page number max_pages; with
\* max_pages = 2 and two valid cards on each of the two pages a fresh
\* scraper returns exactly 4 rows after a single click.
C3_LastPageNotPaginated ==
  /\ max_pages \notin invoked
  /\ pc = "next" => page + 1 < max_pages
  /\ (/\ pc = "done"
      /\ max_pages = 2
      /\ start = 0
      /\ Len(seen) = 2
      /\ seen[1].cards = TwoValid
      /\ seen[2].cards = TwoValid)
     => (Len(returned) = 4 /\ clicks = 1 /\ stop = "budget" /\ invoked = {1})

C3_Witness ==
  /\ pc = "done"
  /\ max_pages = 2
  /\ start = 0
  /\ Len(seen) = 2
  /\ seen[1].cards = TwoValid
  /\ seen[2].cards = TwoValid
  /\ Len(returned) = 4

\* C4: every record of self.data has a name that is not empty, also after
\* trimming; a card with a name and no rating is in self.data with rating
\* 0.0; the records of a call are as many as the named cards it saw.
C4_NamedRecordsOnly ==
  /\ \A k \in 1..Len(data) :
       data[k].hotel_name # <<>> /\ Strip(data[k].hotel_name) = data[k].hotel_name
  /\ \A e \in 1..Len(seen) : \A j \in 1..Len(seen[e].cards) :
       seen[e].cards[j] = "no_rating" =>
         \E k \in (start + 1)..Len(data) :
           /\ data[k].hotel_name = NameText(seen[e].page, j)
           /\ data[k].rating = Zero
  /\ Len(data) - start = TotalNamed(seen)

C4_Witness ==
  /\ \E e \in 1..Len(seen) : \E j \in 1..Len(seen[e].cards) : seen[e].cards[j] = "no_name"
  /\ \E k \in 1..Len(data) : data[k].rating = Zero

\* C5: the page call always returns to the loop of scrape_hotel_data, and
\* when find_elements returned it reports as many records as the page has
\* cards that are named and not faulty, each of them added by this call.
C5_FaultyCardSkipped ==
  [][pc = "find" =>
       /\ pc' \in {"next", "loop"}
       /\ stop' = "none"
       /\ LET e == seen'[Len(seen')]
          IN e.listed =>
               /\ page_hotels' = NamedCount(e.cards)
               /\ \A j \in 1..Len(e.cards) :
                    Named(e.cards[j]) =>
                      \E k \in (Len(data) + 1)..Len(data') :
                        data'[k].hotel_name = NameText(e.page, j)]_vars

C5_Witness ==
  /\ pc \in {"next", "loop"}
  /\ seen # <<>>
  /\ LET e == seen[Len(seen)]
     IN /\ Len(e.cards) = 3
        /\ e.cards[2] = "stale"
        /\ page_hotels = 2
        /\ data[Len(data)].hotel_name = NameText(e.page, 3)

\* C9: the records of a call are in the order of their pages and, within a
\* page, of their cards; the frame returned keeps the order of self.data.
C9_ExtractionOrder ==
  /\ \A k, l \in (start + 1)..Len(data) :
       k < l => PosOf(data[k].hotel_name) < PosOf(data[l].hotel_name)
  /\ (pc = "done" /\ stop # "fault") => SameRecords(returned, data)

C9_Witness ==
  /\ pc = "done"
  /\ start = 0
  /\ Len(returned) = 4
  /\ returned[1].hotel_name = NameText(1, 1)
  /\ returned[2].hotel_name = NameText(1, 3)
  /\ returned[3].hotel_name = NameText(2, 1)
  /\ returned[4].hotel_name = NameText(2, 2)

\* C10: when the wait for a result card times out the call is over: it
\* returns the frame of self.data, which holds the records of the pages
\* before, and the page was neither extracted nor paginated.
C10_TimeoutExhausts ==
  (pc = "done" /\ stop = "timeout") =>
    /\ SameRecords(returned, data)
    /\ Len(data) - start = TotalNamed(seen)
    /\ \A e \in 1..Len(seen) : seen[e].page < page + 1
    /\ (page + 1) \notin invoked
    /\ fetches = page + 1

C10_Witness ==
  /\ pc = "done"
  /\ stop = "timeout"
  /\ page = 1
  /\ start = 0
  /\ Len(returned) = 2

\* What a field is when its lookup finds nothing.
FieldDefault(f) == IF f \in {"price", "rating"} THEN Zero ELSE <<>>

\* What a field is for the lookup's outcome o, whatever the other fields.
FieldValue(f, o) ==
  IF o.kind # "found" THEN FieldDefault(f)
  ELSE CASE f = "price" -> CleanPrice(Strip(o.text))
         [] f = "rating" -> CleanRating(Strip(o.text))
         [] OTHER -> Strip(o.text)

FieldSet == {Fields[k] : k \in 1..Len(Fields)}

\* v is t without its leading and trailing blanks.
IsTrimOf(v, t) ==
  /\ v = <<>> \/ (v[1] # " " /\ v[Len(v)] # " ")
  /\ \E a \in 0..Len(t) :
       /\ a + Len(v) <= Len(t)
       /\ SubSeq(t, a + 1, a + Len(v)) = v
       /\ \A n \in 1..Len(t) : (n <= a \/ n > a + Len(v)) => t[n] = " "

\* C6: when no lookup of a card raises anything but not-found, the
\* extractor returns a dict in which every field has the value of its own
\* lookup, its default where the lookup found nothing, and the dict goes
\* into self.data exactly when its name is not empty.
C6_FieldIsolation ==
  (out # <<>> /\ \A f \in FieldSet : card[f].kind # "fault") =>
    /\ ~out[1].r.raised
    /\ ~out[1].r.none
    /\ \A f \in FieldSet : out[1].r.hotel_data[f] = FieldValue(f, card[f])
    /\ out[1].appended <=> (card.hotel_name.kind = "found"
                            /\ \E n \in 1..Len(card.hotel_name.text) :
                                 card.hotel_name.text[n] # " ")

C6_Witness ==
  /\ out # <<>>
  /\ card.price = Absent
  /\ \A f \in FieldSet \ {"price"} : card[f].kind = "found"
  /\ card.hotel_name.text = <<"I", "n", "n">>
  /\ card.rating.text = RatingText
  /\ out[1].appended
  /\ out[1].r.hotel_data.price = Zero
  /\ out[1].r.hotel_data.rating = [m |-> 83, e |-> 1]
  /\ out[1].r.hotel_data.location = LocationText

\* C7 (as claimed): no call of the field resolver raises.
C7_ResolverNeverThrows ==
  out # <<>> => \A k \in 1..Len(out[1].r.calls) : ~out[1].r.calls[k].raised

\* C7 (amended): the field resolver returns the trimmed text of the element
\* it finds and the empty string when it finds none, without raising; an
\* exception of the lookup other than not-found leaves the resolver.
C7_ResolverCatchesNotFound ==
  out # <<>> =>
    \A k \in 1..Len(out[1].r.calls) :
      LET c == out[1].r.calls[k]
          o == card[c.field]
      IN /\ o.kind = "found" => (~c.raised /\ IsTrimOf(c.value, o.text))
         /\ o.kind = "absent" => (~c.raised /\ c.value = <<>>)
         /\ o.kind = "fault" => c.raised

C7_Witness ==
  /\ out # <<>>
  /\ card.hotel_name = Found(<<" ", "I", "n", "n", " ">>)
  /\ card.price = Absent
  /\ card.rating = Fault
  /\ Len(out[1].r.calls) = 3
  /\ out[1].r.calls[1].value = <<"I", "n", "n">>
  /\ out[1].r.calls[3].raised

\* C8: every field is resolved with the one candidate selector it has,
\* looked up once and in the order of the fields; when that candidate
\* matches, the field resolver returns its trimmed text.
C8_FirstMatchWins ==
  out # <<>> =>
    \A k \in 1..Len(out[1].r.calls) :
      LET c == out[1].r.calls[k]
          o == card[c.field]
      IN /\ c.field = Fields[k]
         /\ Len(SelectorOf(c.field)) = 1
         /\ c.selector = SelectorOf(c.field)[1]
         /\ o.kind = "found" => (~c.raised /\ IsTrimOf(c.value, o.text))

C8_Witness ==
  /\ out # <<>>
  /\ \A f \in FieldSet : card[f].kind = "found"
  /\ card.hotel_name.text = <<" ", "I", "n", "n", " ">>
  /\ Len(out[1].r.calls) = 6
  /\ out[1].r.calls[1].value = <<"I", "n", "n">>

ThreeValid == <<"valid", "valid", "valid">>

\* C11: no page is waited for without a click on a next-page control before
\* it, and a call that ended because no candidate of the next-page step
\* became clickable ended below its page budget, having fetched one page
\* more than it clicked, with every accumulated record returned; on a fresh
\* scraper whose page 1 listed three named cards that is exactly three
\* records after one fetch.
C11_NoNextExhausts ==
  /\ fetches <= clicks + 1
  /\ stop = "no_next" =>
       /\ pc = "done"
       /\ page + 1 < max_pages
       /\ fetches = page + 1
       /\ clicks = page
       /\ page + 1 \in invoked
       /\ SameRecords(returned, data)
       /\ (start = 0 /\ page = 0 /\ seen = <<[page |-> 1, listed |-> TRUE,
                                              cards |-> ThreeValid]>>)
            => Len(returned) = 3 /\ fetches = 1

C11_Witness ==
  /\ pc = "done"
  /\ stop = "no_next"
  /\ start = 0
  /\ seen = <<[page |-> 1, listed |-> TRUE, cards |-> ThreeValid]>>
  /\ Len(returned) = 3
  /\ fetches = 1
  /\ clicks = 0

\* C12: accept_cookies waits on its candidates in order, each after all the
\* ones before it timed out; the first clickable one is clicked and the
\* handler returns True at once, after exactly one click and with the later
\* candidates untried; a handler that returned False has clicked nothing,
\* and all five candidates timing out is such a return.
C12_FirstClickableWins ==
  /\ cookie_clicks <= 1
  /\ cookie_clicks = 1 => pc = "consent" /\ cookies_ret = "true"
  /\ pc = "cookies" =>
       /\ cookies_ret = "none"
       /\ selector \in 1..Len(cookie_selectors)
       /\ cookie_tried = selector - 1
  /\ pc = "consent" =>
       /\ cookies_ret \in {"true", "false"}
       /\ cookie_tried = selector
       /\ cookie_tried <= Len(cookie_selectors)
       /\ cookies_ret = "true" => cookie_clicks = 1
       /\ cookies_ret = "false" => cookie_clicks = 0

\* The first candidate timed out and the second was clicked.
C12_Witness ==
  /\ pc = "consent"
  /\ cookies_ret = "true"
  /\ selector = 2
  /\ cookie_tried = 2
  /\ cookie_clicks = 1

\* Every candidate was waited on and the handler returned False.
C12_AllTimedOut ==
  /\ pc = "consent"
  /\ cookies_ret = "false"
  /\ cookie_tried = Len(cookie_selectors)
  /\ cookie_clicks = 0

\* C13: no step of accept_cookies ends the call or touches the accumulator:
\* a timeout, a click and a fault alike leave it in the handler or return
\* from it; once it has returned, True or False, the page loop begins at
\* its first page, and with a page budget of one or more the next step is
\* the wait for the cards of page 1.
C13_ConsentNonFatal ==
  [][/\ pc = "cookies" =>
          /\ pc' \in {"cookies", "consent"}
          /\ stop' = "none"
          /\ data' = data
          /\ pc' = "consent" => cookies_ret' \in {"true", "false"}
     /\ pc = "consent" =>
          /\ pc' = "loop"
          /\ stop' = "none"
          /\ page' = 0
          /\ fetches' = 0
          /\ data' = data
     /\ (pc = "loop" /\ page = 0 /\ max_pages >= 1) =>
          /\ fetches = 0
          /\ fetches' = 1]_vars

\* The first candidate raised a fault, the handler returned False and the
\* call goes on.
C13_Witness ==
  /\ pc = "consent"
  /\ cookies_ret = "false"
  /\ cookie_tried = 1
  /\ stop = "none"
  /\ max_pages >= 1

\* A float, as the cleaners return it.
IsNumber(v) == DOMAIN v = {"m", "e"} /\ v.m \in Nat /\ v.e \in Nat

HasDigit(s) == \E i \in 1..Len(s) : IsDigit(s[i])

\* C14: for every text both cleaners return a number and no exception
\* leaves them; the number is 0.0 for the empty text and for a text without
\* a digit, and _clean_price returns 0.0 as well when the characters it
\* keeps do not parse, as with more than one point.
C14_CleanersTotal ==
  norm # <<>> =>
    LET price == norm[1].price
        rating == norm[1].rating
        kept == SelectSeq(text, IsDigitOrDot)
    IN /\ IsNumber(price)
       /\ IsNumber(rating)
       /\ text = <<>> => price = Zero /\ rating = Zero
       /\ ~HasDigit(text) => price = Zero /\ rating = Zero
       /\ Dots(kept) > 1 => price = Zero

\* "1.2." went through both cleaners: two points for _clean_price, the
\* numeral 1.2 for _clean_rating.
C14_Witness ==
  /\ text = <<"1", ".", "2", ".">>
  /\ norm # <<>>
  /\ norm[1].price = Zero
  /\ norm[1].rating = [m |-> 12, e |-> 1]

C16_CallTerminates ==
  (pc \notin {"idle", "done"}) ~>
    (pc = "done" /\ stop \in {"budget", "timeout", "no_next", "next_fault", "fault"})

\* A call with two pages to load has loaded both and ended.
C16_Witness ==
  /\ pc = "done"
  /\ max_pages = MaxPages
  /\ Len(seen) = max_pages
  /\ stop = "budget"

\* C17, the accumulator: no step removes, reorders or clears a record of
\* self.data; what it held before a step is a prefix of what it holds after.
C17_AppendOnly ==
  [][/\ Len(data) <= Len(data')
     /\ SubSeq(data', 1, Len(data)) = data]_vars

\* C17: a second call of scrape_hotel_data on the same scraper returns the
\* records the first call left in self.data followed by the records of the
\* named cards the second call saw.
C17_SecondCallReturnsBoth ==
  (pc = "done" /\ runs = 2) =>
    /\ SameRecords(returned, data)
    /\ Len(returned) = start + TotalNamed(seen)

\* A second call that ended without a fault returned the record of the
\* first call and then its own.
C17_BothReturned ==
  /\ pc = "done"
  /\ runs = 2
  /\ start = 1
  /\ Len(returned) = 2
  /\ returned[1].rating = Zero
  /\ returned[2].rating # Zero

\* C18: when find_elements raised on the page read last, the page call
\* returned 0 and self.data is as long as it was when the call began; the
\* loop went on to the next-page step, or to its end when the page was the
\* last one allowed, and a call that ended at the outer handler after that
\* did so in a later wait.
C18_PageFaultAbsorbed ==
  (seen # <<>> /\ ~seen[Len(seen)].listed) =>
    LET p == seen[Len(seen)].page
    IN /\ page_hotels = 0
       /\ Len(data) = hotels_before
       /\ p < max_pages => p \in invoked
       /\ p = max_pages => pc \in {"loop", "done"} /\ page = max_pages
       /\ (pc = "done" /\ stop = "fault") => fetches > p

\* Page 1 gave a record, find_elements raised on page 2, and the call
\* ended with the record returned.
C18_RecordsKept ==
  /\ pc = "done"
  /\ stop = "budget"
  /\ start = 0
  /\ Len(seen) = 2
  /\ seen[1].listed
  /\ ~seen[2].listed
  /\ page_hotels = 0
  /\ Len(data) = 1
  /\ Len(returned) = 1

\* find_elements raised on page 1 and the next-page step is under way.
C18_Witness ==
  /\ pc = "next"
  /\ Len(seen) = 1
  /\ ~seen[1].listed
  /\ page_hotels = 0
  /\ stop = "none"

\* C19: a fault in the next-page step that is not a timeout ends the step
\* and the loop at once: the call is over with no further candidate tried,
\* page fetched or control clicked, and it returns every record of
\* self.data, those of the page just read among them; a call that ended at
\* the outer handler never did so from the next-page step.
C19_NextFaultStops ==
  /\ stop = "next_fault" =>
       /\ pc = "done"
       /\ page + 1 < max_pages
       /\ page + 1 \in invoked
       /\ fetches = page + 1
       /\ clicks = page
       /\ SameRecords(returned, data)
       /\ Len(returned) = start + TotalNamed(seen)
  /\ (pc = "done" /\ stop = "fault") => (fetches = 0 \/ (page + 1) \notin invoked)

\* Page 1 gave two records and the next-page step raised a fault.
C19_Witness ==
  /\ pc = "done"
  /\ stop = "next_fault"
  /\ page = 0
  /\ start = 0
  /\ Len(seen) = 1
  /\ Len(returned) = 2
  /\ fetches = 1
  /\ clicks = 0

====
